---- MODULE Spec2Model ----
(***************************************************************************)
(* Model of src/src/main/python/java_math.py (RoundingMode, the           *)
(* module-level rounding contexts _RM_TO_CONTEXT, BigDecimal.as_tuple and  *)
(* BigDecimal.set_scale) and of src/primitives.py (IntType).               *)
(*                                                                         *)
(* Python integers and decimal coefficients are unbounded, so they are     *)
(* represented by their decimal digits (most significant first), the way   *)
(* Decimal.as_tuple() exposes a coefficient.  A Python int is              *)
(* [neg, mag]; a Decimal is [special, sign, int, exp].                     *)
(***************************************************************************)
EXTENDS Integers, Sequences, FiniteSets, TLC

(***************************************************************************)
(* Bounds of the model.                                                    *)
(***************************************************************************)
\* number of digits of the long coefficients among the receivers
LongLen == 29
\* set_scale calls each thread issues in the concurrent specification
MaxCalls == 2

(***************************************************************************)
(* Unbounded naturals as digit sequences (most significant digit first).   *)
(***************************************************************************)
Rep(d, n) == [i \in 1..n |-> d]

Reverse(s) == [i \in 1..Len(s) |-> s[Len(s) + 1 - i]]

RECURSIVE StripZeros(_)
StripZeros(ds) ==
    IF Len(ds) > 1 /\ Head(ds) = 0 THEN StripZeros(Tail(ds))
    ELSE IF ds = <<>> THEN <<0>> ELSE ds

RECURSIVE AddLE(_, _, _)
AddLE(a, b, c) ==
    IF a = <<>> /\ b = <<>> THEN (IF c = 0 THEN <<>> ELSE <<c>>)
    ELSE LET x == IF a = <<>> THEN 0 ELSE Head(a)
             y == IF b = <<>> THEN 0 ELSE Head(b)
             s == x + y + c
         IN  <<s % 10>> \o AddLE(IF a = <<>> THEN a ELSE Tail(a),
                                 IF b = <<>> THEN b ELSE Tail(b), s \div 10)

AddMag(a, b) == StripZeros(Reverse(AddLE(Reverse(a), Reverse(b), 0)))

\* a - b for a >= b
RECURSIVE SubLE(_, _, _)
SubLE(a, b, c) ==
    IF a = <<>> THEN <<>>
    ELSE LET y == IF b = <<>> THEN 0 ELSE Head(b)
             s == Head(a) - y - c
         IN  <<s % 10>> \o SubLE(Tail(a), IF b = <<>> THEN b ELSE Tail(b),
                                 IF s < 0 THEN 1 ELSE 0)

SubMag(a, b) == StripZeros(Reverse(SubLE(Reverse(a), Reverse(b), 0)))

LessMag(a, b) ==
    LET x == StripZeros(a)
        y == StripZeros(b)
    IN  \/ Len(x) < Len(y)
        \/ /\ Len(x) = Len(y)
           /\ \E i \in 1..Len(x) : x[i] < y[i] /\ \A j \in 1..(i - 1) : x[j] = y[j]

LeqMag(a, b) == ~LessMag(b, a)

\* m * 10^k
ShiftMag(m, k) == StripZeros(m \o Rep(0, k))

(***************************************************************************)
(* Python int: sign and magnitude; zero has no sign.                       *)
(***************************************************************************)
PyInt(neg, mag) ==
    LET m == StripZeros(mag)
    IN  [neg |-> neg /\ m # <<0>>, mag |-> m]

IntNeg(x) == PyInt(~x.neg, x.mag)

IntAdd(x, y) ==
    IF x.neg = y.neg THEN PyInt(x.neg, AddMag(x.mag, y.mag))
    ELSE IF LeqMag(y.mag, x.mag) THEN PyInt(x.neg, SubMag(x.mag, y.mag))
    ELSE PyInt(y.neg, SubMag(y.mag, x.mag))

\* a small machine-sized integer as a Python int
RECURSIVE NatDigits(_)
NatDigits(n) == IF n < 10 THEN <<n>> ELSE NatDigits(n \div 10) \o <<n % 10>>

FromInt(n) == IF n < 0 THEN PyInt(TRUE, NatDigits(-n)) ELSE PyInt(FALSE, NatDigits(n))

RECURSIVE SeqSum(_)
SeqSum(s) == IF s = <<>> THEN 0 ELSE Head(s) + SeqSum(Tail(s))

\* least significant digit first: column sums to digits
RECURSIVE CarryLE(_, _)
CarryLE(s, c) ==
    IF s = <<>> THEN (IF c = 0 THEN <<>> ELSE <<c % 10>> \o CarryLE(s, c \div 10))
    ELSE <<(Head(s) + c) % 10>> \o CarryLE(Tail(s), (Head(s) + c) \div 10)

\* a * b, by columns
MulMag(a, b) ==
    LET x == Reverse(a)
        y == Reverse(b)
        column(k) ==
            LET lo == IF k + 1 - Len(y) > 1 THEN k + 1 - Len(y) ELSE 1
                hi == IF k < Len(x) THEN k ELSE Len(x)
            IN  SeqSum([j \in 1..(hi - lo + 1) |-> x[lo + j - 1] * y[k + 2 - lo - j]])
    IN  StripZeros(Reverse(CarryLE([k \in 1..(Len(x) + Len(y) - 1) |-> column(k)], 0)))

IntMul(x, y) == PyInt(x.neg # y.neg, MulMag(x.mag, y.mag))

\* 2 ** n
RECURSIVE Pow2(_)
Pow2(n) ==
    IF n = 0 THEN FromInt(1)
    ELSE IF n % 2 = 1 THEN IntMul(FromInt(2), Pow2(n - 1))
    ELSE IntMul(Pow2(n \div 2), Pow2(n \div 2))

(***************************************************************************)
(* decimal.Decimal values.                                                 *)
(***************************************************************************)
Finite(sign, int, exp) == [special |-> "F", sign |-> sign, int |-> StripZeros(int), exp |-> exp]

NaN == [special |-> "n", sign |-> 0, int |-> <<>>, exp |-> 0]

IsZero(d) == d.special = "F" /\ d.int = <<0>>

adjusted(d) == d.exp + Len(d.int) - 1

\* numeric equality of two finite decimals
NumEq(a, b) ==
    LET e == IF a.exp < b.exp THEN a.exp ELSE b.exp
        x == ShiftMag(a.int, a.exp - e)
        y == ShiftMag(b.int, b.exp - e)
    IN  x = y /\ (a.sign = b.sign \/ x = <<0>>)

(***************************************************************************)
(* RoundingMode (IntEnum: UP = 0, then auto()) and the module-level        *)
(* contexts, one per mode, indexed by the mode's ordinal.                  *)
(***************************************************************************)
UP == 0
DOWN == 1
CEILING == 2
FLOOR == 3
HALF_UP == 4
HALF_DOWN == 5
HALF_EVEN == 6
UNNECESSARY == 7

RoundingMode == {UP, DOWN, CEILING, FLOOR, HALF_UP, HALF_DOWN, HALF_EVEN, UNNECESSARY}

RMName == <<"UP", "DOWN", "CEILING", "FLOOR", "HALF_UP", "HALF_DOWN", "HALF_EVEN", "UNNECESSARY">>

\* decimal.Context(): the settings a context gets when they are not passed
DefaultPrec == 28
DefaultEmax == 999999
DefaultEmin == -999999
DefaultRounding == "ROUND_HALF_EVEN"
DefaultTraps == {"InvalidOperation", "DivisionByZero", "Overflow"}

Context(rounding, traps) ==
    [prec |-> DefaultPrec, rounding |-> rounding, Emin |-> DefaultEmin,
     Emax |-> DefaultEmax, traps |-> traps]

\* a Python list: element i of the list is _RM_TO_CONTEXT[i + 1] here
_RM_TO_CONTEXT ==
    [i \in 1..Cardinality(RoundingMode) |->
        IF i - 1 = UNNECESSARY THEN Context(DefaultRounding, {"Inexact"})
        ELSE Context("ROUND_" \o RMName[i], DefaultTraps)]

Etiny(ctx) == ctx.Emin - ctx.prec + 1

(***************************************************************************)
(* Decimal.quantize(exp, context=context), for a finite receiver and a     *)
(* finite exp, as the decimal module computes it.                          *)
(***************************************************************************)
\* digits int[prec:] are all zero (prec is a 0-based position)
AllZeros(int, prec) == \A i \in (prec + 1)..Len(int) : int[i] = 0

ExactHalf(int, prec) == int[prec + 1] = 5 /\ AllZeros(int, prec + 1)

RoundDown(d, prec) == IF AllZeros(d.int, prec) THEN 0 ELSE -1

RoundHalfUp(d, prec) ==
    IF d.int[prec + 1] >= 5 THEN 1
    ELSE IF AllZeros(d.int, prec) THEN 0 ELSE -1

\* 1: the retained coefficient is incremented; 0: exact; -1: truncated
PickRoundingFunction(rounding, d, prec) ==
    CASE rounding = "ROUND_DOWN" -> RoundDown(d, prec)
      [] rounding = "ROUND_UP" -> -RoundDown(d, prec)
      [] rounding = "ROUND_HALF_UP" -> RoundHalfUp(d, prec)
      [] rounding = "ROUND_HALF_DOWN" ->
            IF ExactHalf(d.int, prec) THEN -1 ELSE RoundHalfUp(d, prec)
      [] rounding = "ROUND_HALF_EVEN" ->
            IF ExactHalf(d.int, prec) /\ (prec = 0 \/ d.int[prec] % 2 = 0) THEN -1
            ELSE RoundHalfUp(d, prec)
      [] rounding = "ROUND_CEILING" ->
            IF d.sign = 1 THEN RoundDown(d, prec) ELSE -RoundDown(d, prec)
      [] rounding = "ROUND_FLOOR" ->
            IF d.sign = 0 THEN RoundDown(d, prec) ELSE -RoundDown(d, prec)

\* the receiver (nonzero) with exponent exp, rounded when digits are dropped
Rescale(self, exp, rounding) ==
    IF self.exp >= exp THEN Finite(self.sign, self.int \o Rep(0, self.exp - exp), exp)
    ELSE LET d0 == Len(self.int) + self.exp - exp
             \* below one unit of exp: any nonzero value rounds like 10^(exp-1)
             src == IF d0 < 0 THEN Finite(self.sign, <<1>>, exp - 1) ELSE self
             digits == IF d0 < 0 THEN 0 ELSE d0
             changed == PickRoundingFunction(rounding, src, digits)
             coeff == IF digits = 0 THEN <<0>> ELSE SubSeq(src.int, 1, digits)
         IN  Finite(self.sign, IF changed = 1 THEN AddMag(coeff, <<1>>) ELSE coeff, exp)

\* the result and the conditions the operation signals
Quantize(self, exp, ctx) ==
    LET invalid == [ans |-> NaN, status |-> {"InvalidOperation"}]
    IN  IF ~(Etiny(ctx) <= exp.exp /\ exp.exp <= ctx.Emax) THEN invalid
        ELSE IF IsZero(self) THEN [ans |-> Finite(self.sign, <<0>>, exp.exp), status |-> {}]
        ELSE IF adjusted(self) > ctx.Emax THEN invalid
        ELSE IF adjusted(self) - exp.exp + 1 > ctx.prec THEN invalid
        ELSE LET ans == Rescale(self, exp.exp, ctx.rounding)
             IN  IF adjusted(ans) > ctx.Emax \/ Len(ans.int) > ctx.prec THEN invalid
                 ELSE [ans |-> ans,
                       status |->
                          (IF ~IsZero(ans) /\ adjusted(ans) < ctx.Emin
                           THEN {"Subnormal"} ELSE {})
                          \cup (IF ans.exp > self.exp /\ ~NumEq(ans, self)
                                THEN {"Inexact"} ELSE {})
                          \cup (IF ans.exp > self.exp THEN {"Rounded"} ELSE {})]

\* the first trapped condition among those signalled, in the module's order
Signals == <<"InvalidOperation", "DivisionByZero", "Overflow", "Subnormal", "Inexact", "Rounded">>

Trapped(status, traps) ==
    LET hit == {i \in 1..Len(Signals) : Signals[i] \in status \cap traps}
    IN  IF hit = {} THEN "none" ELSE Signals[CHOOSE i \in hit : \A j \in hit : i <= j]

(***************************************************************************)
(* BigDecimal.as_tuple, the Decimal constructor and BigDecimal.set_scale.  *)
(***************************************************************************)
\* digit k of m, counted from the least significant one
DigitLE(m, k) == IF k <= Len(m) THEN m[Len(m) + 1 - k] ELSE 0

\* the sum of the terms, added column by column and then carried
SumMags(terms, width) ==
    StripZeros(Reverse(CarryLE(
        [k \in 1..width |-> SeqSum([i \in 1..Len(terms) |-> DigitLE(terms[i], k)])], 0)))

\* sum(digit * 10 ** i for i, digit in enumerate(reversed(digits)))
SumDigits(rev) ==
    PyInt(FALSE, SumMags([i \in 1..Len(rev) |-> ShiftMag(<<rev[i]>>, i - 1)], Len(rev)))

\* super().as_tuple() is (sign, digits, exponent); a NaN has exponent 'n',
\* which unary minus rejects
as_tuple(d) ==
    IF d.special # "F" THEN [kind |-> "raise", exc |-> "TypeError", val |-> <<>>]
    ELSE LET unscaled_value == SumDigits(Reverse(d.int))
         IN  [kind |-> "return", exc |-> "none",
              val |-> <<IF d.sign = 1 THEN IntNeg(unscaled_value) ELSE unscaled_value,
                        -d.exp>>]

\* BigDecimal(value) for a tuple: BigDecimal defines no constructor, so this
\* is Decimal's, which takes (sign, digits, exponent)
DecimalNew(value) ==
    IF Len(value) # 3 THEN [kind |-> "raise", exc |-> "ValueError", val |-> NaN]
    ELSE [kind |-> "return", exc |-> "none", val |-> Finite(value[1], value[2], value[3])]

\* the outcome of  BigDecimal(self.quantize(prototype, context=context))
\* given what quantize computed and the traps of the context
Outcome(q, traps) ==
    IF Trapped(q.status, traps) # "none"
    THEN [kind |-> "raise", exc |-> Trapped(q.status, traps), val |-> NaN]
    ELSE [kind |-> "return", exc |-> "none", val |-> q.ans]

\* set_scale as a function of its arguments
set_scale(self, new_scale, rounding) ==
    LET context == _RM_TO_CONTEXT[rounding + 1]
        prototype == Finite(0, <<1>>, -new_scale)
    IN  Outcome(Quantize(self, prototype, context), context.traps)

(***************************************************************************)
(* IntType (src/primitives.py).                                            *)
(***************************************************************************)
IntTypeNames == <<"BYTE", "SHORT", "INT", "LONG">>

\* auto(): members are numbered from 1 in definition order
IntTypeValue(name) == CHOOSE i \in 1..Len(IntTypeNames) : IntTypeNames[i] = name

\* a variant whose limit is that of the unsigned type of the same size
IntTypeInitUnsigned(value) ==
    LET size == 2 ^ (value - 1)
        limit == Pow2(8 * size)
    IN  [size |-> size, limit |-> limit]

\* IntType.__init__
IntTypeInit(value) ==
    LET size == 2 ^ (value - 1)
        limit == Pow2(8 * size - 1)
    IN  [size |-> size, limit |-> limit]

IntType == [name \in {IntTypeNames[i] : i \in 1..Len(IntTypeNames)} |-> IntTypeInit(IntTypeValue(name))]

\* range(-self._limit, self._limit)
numbers(self) == [start |-> IntNeg(self.limit), stop |-> self.limit]

\* r[i] for a range of step 1: a negative index counts from the end
RangeItem(r, i) == IF i >= 0 THEN IntAdd(r.start, FromInt(i)) ELSE IntAdd(r.stop, FromInt(i))

min_max_values(self) == <<RangeItem(numbers(self), 0), RangeItem(numbers(self), -1)>>

(***************************************************************************)
(* Inputs.                                                                 *)
(***************************************************************************)
\* a scale one digit wider than a context holds for a one-digit value
WideScale == DefaultPrec
\* a scale whose exponent lies below the smallest exponent of a context
HugeScale == 1 - (DefaultEmin - DefaultPrec + 1)

Coefficients ==
    {<<0>>, <<1>>, <<5>>, <<1, 0>>, <<1, 4>>, <<1, 5>>, <<1, 6>>, <<2, 5>>, <<3, 5>>, <<1, 0, 0>>,
     <<2, 5, 1>>,
     Rep(1, LongLen), Rep(9, LongLen - 1) \o <<5>>}

Values == {Finite(sg, c, e) : sg \in {0, 1}, c \in Coefficients, e \in -2..1}

Scales == (-1..2) \cup {WideScale, HugeScale}

ConcValues == {Finite(0, <<1, 5>>, -1), Finite(1, <<1, 5, 0>>, -2)}

ConcScales == {0, 1, WideScale}

ConcModes == {HALF_UP, UNNECESSARY}

(***************************************************************************)
(* State.  Every thread runs one operation at a time; the flags of the     *)
(* module-level contexts are the only state the threads share.             *)
(***************************************************************************)
VARIABLES
    pc,          \* thread -> position in the operation it runs
    calls,       \* thread -> operations it may still start
    flags,       \* context index -> conditions recorded in that context
    self,        \* thread -> receiver of the operation
    new_scale,   \* thread -> set_scale argument
    rounding,    \* thread -> set_scale argument
    context,     \* thread -> index of the context picked on line 79
    prototype,   \* thread -> Decimal built on line 80
    quantized,   \* thread -> what quantize computed, before it is recorded
    result,      \* thread -> outcome of set_scale or of the constructor
    decomposed,  \* thread -> outcome of as_tuple
    table        \* thread -> outcome of the IntType lookup

vars == <<pc, calls, flags, self, new_scale, rounding, context, prototype,
          quantized, result, decomposed, table>>

Threads == DOMAIN pc

NoDecimal == [special |-> "none", sign |-> 0, int |-> <<>>, exp |-> 0]
NoQuantized == [ans |-> NoDecimal, status |-> {}]
NoResult == [kind |-> "none", exc |-> "none", val |-> NoDecimal]
NoTuple == [kind |-> "none", exc |-> "none", val |-> <<>>]
NoTable == [kind |-> "none", size |-> 0, min_max |-> <<>>]

InitThreads(T, n) ==
    /\ pc = [t \in T |-> "idle"]
    /\ calls = [t \in T |-> n]
    /\ flags = [i \in 1..Len(_RM_TO_CONTEXT) |-> {}]
    /\ self = [t \in T |-> NoDecimal]
    /\ new_scale = [t \in T |-> 0]
    /\ rounding = [t \in T |-> UNNECESSARY]
    /\ context = [t \in T |-> 0]
    /\ prototype = [t \in T |-> NoDecimal]
    /\ quantized = [t \in T |-> NoQuantized]
    /\ result = [t \in T |-> NoResult]
    /\ decomposed = [t \in T |-> NoTuple]
    /\ table = [t \in T |-> NoTable]

\* one caller, one operation
Init == InitThreads({1}, 1)

\* two callers, MaxCalls operations each
InitConc == InitThreads({1, 2}, MaxCalls)

(***************************************************************************)
(* set_scale, step by step.                                                *)
(***************************************************************************)
\* v.set_scale(s, rm) is called
CallSetScale(t, v, s, rm) ==
    /\ pc[t] = "idle" /\ calls[t] > 0
    /\ pc' = [pc EXCEPT ![t] = "called"]
    /\ calls' = [calls EXCEPT ![t] = @ - 1]
    /\ self' = [self EXCEPT ![t] = v]
    /\ new_scale' = [new_scale EXCEPT ![t] = s]
    /\ rounding' = [rounding EXCEPT ![t] = rm]
    /\ UNCHANGED <<flags, context, prototype, quantized, result, decomposed, table>>

\* lines 79-80: pick the shared context of the mode, build the prototype
Prepare(t) ==
    /\ pc[t] = "called"
    /\ pc' = [pc EXCEPT ![t] = "prepared"]
    /\ context' = [context EXCEPT ![t] = rounding[t] + 1]
    /\ prototype' = [prototype EXCEPT ![t] = Finite(0, <<1>>, -new_scale[t])]
    /\ UNCHANGED <<calls, flags, self, new_scale, rounding, quantized, result, decomposed, table>>

\* line 81, quantize: the result and its conditions are computed from the
\* settings of the context
QuantizeCompute(t) ==
    /\ pc[t] = "prepared"
    /\ pc' = [pc EXCEPT ![t] = "quantized"]
    /\ quantized' = [quantized EXCEPT ![t] =
                        Quantize(self[t], prototype[t], _RM_TO_CONTEXT[context[t]])]
    /\ UNCHANGED <<calls, flags, self, new_scale, rounding, context, prototype, result,
                   decomposed, table>>

\* a variant that consults the conditions recorded by earlier operations
RaisesSticky(status, ctxflags, traps) == Trapped(status \cup ctxflags, traps)

\* which condition, if any, makes the operation raise: only the conditions
\* of this operation count, not those recorded in the context before
Raises(status, ctxflags, traps) == Trapped(status, traps)

\* line 81, end of quantize: the conditions are recorded in the shared
\* context, a trapped one raises, otherwise the value is wrapped and returned
AddStatus(t) ==
    /\ pc[t] = "quantized"
    /\ pc' = [pc EXCEPT ![t] = "returned"]
    /\ flags' = [flags EXCEPT ![context[t]] = @ \cup quantized[t].status]
    /\ result' = [result EXCEPT ![t] =
            LET exc == Raises(quantized[t].status, flags[context[t]],
                              _RM_TO_CONTEXT[context[t]].traps)
            IN  IF exc # "none" THEN [kind |-> "raise", exc |-> exc, val |-> NaN]
                ELSE [kind |-> "return", exc |-> "none", val |-> quantized[t].ans]]
    /\ UNCHANGED <<calls, self, new_scale, rounding, context, prototype, quantized,
                   decomposed, table>>

\* the caller decomposes the value set_scale returned
AsTupleResult(t) ==
    /\ pc[t] = "returned" /\ result[t].kind = "return"
    /\ pc' = [pc EXCEPT ![t] = "inspected"]
    /\ decomposed' = [decomposed EXCEPT ![t] = as_tuple(result[t].val)]
    /\ UNCHANGED <<calls, flags, self, new_scale, rounding, context, prototype, quantized,
                   result, table>>

(***************************************************************************)
(* as_tuple followed by the constructor, and the IntType lookup.           *)
(***************************************************************************)
AsTuple(t, v) ==
    /\ pc[t] = "idle" /\ calls[t] > 0
    /\ pc' = [pc EXCEPT ![t] = "decomposed"]
    /\ calls' = [calls EXCEPT ![t] = @ - 1]
    /\ self' = [self EXCEPT ![t] = v]
    /\ decomposed' = [decomposed EXCEPT ![t] = as_tuple(v)]
    /\ UNCHANGED <<flags, new_scale, rounding, context, prototype, quantized, result, table>>

Construct(t) ==
    /\ pc[t] = "decomposed" /\ decomposed[t].kind = "return"
    /\ pc' = [pc EXCEPT ![t] = "constructed"]
    /\ result' = [result EXCEPT ![t] = DecimalNew(decomposed[t].val)]
    /\ UNCHANGED <<calls, flags, self, new_scale, rounding, context, prototype, quantized,
                   decomposed, table>>

Lookup(t, name) ==
    /\ pc[t] = "idle" /\ calls[t] > 0
    /\ pc' = [pc EXCEPT ![t] = "looked"]
    /\ calls' = [calls EXCEPT ![t] = @ - 1]
    /\ table' = [table EXCEPT ![t] =
            [kind |-> name, size |-> IntType[name].size,
             min_max |-> min_max_values(IntType[name])]]
    /\ UNCHANGED <<flags, self, new_scale, rounding, context, prototype, quantized, result,
                   decomposed>>

\* the operation is over; its locals are dead
Finish(t) ==
    /\ pc[t] \in {"returned", "inspected", "decomposed", "constructed", "looked"}
    /\ pc' = [pc EXCEPT ![t] = "idle"]
    /\ self' = [self EXCEPT ![t] = NoDecimal]
    /\ new_scale' = [new_scale EXCEPT ![t] = 0]
    /\ rounding' = [rounding EXCEPT ![t] = UNNECESSARY]
    /\ context' = [context EXCEPT ![t] = 0]
    /\ prototype' = [prototype EXCEPT ![t] = NoDecimal]
    /\ quantized' = [quantized EXCEPT ![t] = NoQuantized]
    /\ result' = [result EXCEPT ![t] = NoResult]
    /\ decomposed' = [decomposed EXCEPT ![t] = NoTuple]
    /\ table' = [table EXCEPT ![t] = NoTable]
    /\ UNCHANGED <<calls, flags>>

Next ==
    \E t \in Threads :
        \/ \E v \in Values, s \in Scales, rm \in RoundingMode : CallSetScale(t, v, s, rm)
        \/ Prepare(t)
        \/ QuantizeCompute(t)
        \/ AddStatus(t)
        \/ AsTupleResult(t)
        \/ \E v \in Values : AsTuple(t, v)
        \/ Construct(t)
        \/ \E name \in DOMAIN IntType : Lookup(t, name)
        \/ Finish(t)

Spec == Init /\ [][Next]_vars

NextConc ==
    \E t \in Threads :
        \/ \E v \in ConcValues, s \in ConcScales, rm \in ConcModes : CallSetScale(t, v, s, rm)
        \/ Prepare(t)
        \/ QuantizeCompute(t)
        \/ AddStatus(t)
        \/ Finish(t)

SpecConc == InitConc /\ [][NextConc]_vars

(***************************************************************************)
(* Vocabulary of the properties.                                           *)
(***************************************************************************)
\* thread t has completed a set_scale call whose outcome is in result[t]
Done(t) == pc[t] \in {"returned", "inspected"}

Scale(d) == -d.exp

Returned(t) == result[t].kind = "return" /\ result[t].val.special = "F"

\* the exact value of v can be written with scale s
Representable(v, s) ==
    LET k == Scale(v) - s
    IN  \/ k <= 0
        \/ v.int = <<0>>
        \/ k < Len(v.int) /\ \A i \in (Len(v.int) - k + 1)..Len(v.int) : v.int[i] = 0

\* |v| and |r| in units of v's last place, and one unit of r's last place
Units(v, r) ==
    [U |-> v.int, R |-> ShiftMag(r.int, r.exp - v.exp), P |-> ShiftMag(<<1>>, r.exp - v.exp)]

SameSign(v, r) == r.sign = v.sign \/ r.int = <<0>>

\* r is the neighbour of v of smaller magnitude, v not representable
Below(v, r) ==
    LET u == Units(v, r) IN LessMag(u.R, u.U) /\ LessMag(u.U, AddMag(u.R, u.P))

\* r is the neighbour of v of larger magnitude, v not representable
Above(v, r) ==
    LET u == Units(v, r) IN LessMag(u.U, u.R) /\ LessMag(u.R, AddMag(u.U, u.P))

\* v lies exactly half way between r and the neighbour on the far side of zero
TieBelow(v, r) ==
    LET u == Units(v, r) IN AddMag(u.U, u.U) = AddMag(AddMag(u.R, u.R), u.P)

\* v lies exactly half way between r and the neighbour nearer to zero
TieAbove(v, r) ==
    LET u == Units(v, r) IN AddMag(u.R, u.R) = AddMag(AddMag(u.U, u.U), u.P)

\* no value of r's scale is nearer to v than r
Nearest(v, r) ==
    LET u == Units(v, r)
    IN  \/ LeqMag(u.R, u.U) /\ LeqMag(AddMag(u.U, u.U), AddMag(AddMag(u.R, u.R), u.P))
        \/ LeqMag(u.U, u.R) /\ LeqMag(AddMag(u.R, u.R), AddMag(AddMag(u.U, u.U), u.P))

NearestPerMode(v, r, rm) ==
    /\ SameSign(v, r)
    /\ Nearest(v, r)
    /\ rm = HALF_UP => ~TieBelow(v, r)
    /\ rm = HALF_DOWN => ~TieAbove(v, r)
    /\ rm = HALF_EVEN /\ (TieBelow(v, r) \/ TieAbove(v, r)) => r.int[Len(r.int)] % 2 = 0

DirectedPerMode(v, r, rm) ==
    /\ SameSign(v, r)
    /\ IF Representable(v, Scale(r)) THEN Units(v, r).R = Units(v, r).U
       ELSE CASE rm = UP -> Above(v, r)
              [] rm = DOWN -> Below(v, r)
              [] rm = CEILING -> IF v.sign = 0 THEN Above(v, r) ELSE Below(v, r)
              [] rm = FLOOR -> IF v.sign = 0 THEN Below(v, r) ELSE Above(v, r)

\* the unscaled value of v multiplied by 10^k
Widened(v, k) == PyInt(v.sign = 1, ShiftMag(v.int, k))

(***************************************************************************)
(* Properties.                                                             *)
(***************************************************************************)
\* C1: widening is exact and total: a completed set_scale(new_scale, p) with
\* new_scale >= scale returned, for every mode p, a value whose unscaled
\* value is the receiver's times 10^(new_scale - scale), at scale new_scale.
C1_WideningExactTotal ==
    \A t \in Threads :
        Done(t) /\ new_scale[t] >= Scale(self[t]) =>
            /\ Returned(t)
            /\ pc[t] = "inspected" =>
                  /\ decomposed[t].kind = "return"
                  /\ decomposed[t].val =
                        <<Widened(self[t], new_scale[t] - Scale(self[t])), new_scale[t]>>

\* C2: under UNNECESSARY, set_scale returns a value exactly when the
\* receiver's value is representable at new_scale, and otherwise raises
\* Inexact.
C2_UnnecessaryExactness ==
    \A t \in Threads :
        Done(t) /\ rounding[t] = UNNECESSARY =>
            IF Representable(self[t], new_scale[t]) THEN Returned(t)
            ELSE result[t].kind = "raise" /\ result[t].exc = "Inexact"

\* C3: under every mode other than UNNECESSARY set_scale returns a result and
\* raises nothing.
C3_OnlyUnnecessaryFails ==
    \A t \in Threads :
        Done(t) /\ rounding[t] # UNNECESSARY => result[t].kind = "return"

\* C4: constructing a value from the pair v.as_tuple() succeeds and yields
\* the unscaled value and the scale of v; trailing zeros are kept, 1.0
\* decomposes to (10, 1) and 1.00 to (100, 2).
C4_RoundTrip ==
    \A t \in Threads :
        /\ pc[t] \in {"decomposed", "constructed"} =>
              /\ decomposed[t].kind = "return"
              /\ self[t] = Finite(0, <<1, 0>>, -1) => decomposed[t].val = <<FromInt(10), 1>>
              /\ self[t] = Finite(0, <<1, 0, 0>>, -2) => decomposed[t].val = <<FromInt(100), 2>>
        /\ pc[t] = "constructed" =>
              /\ result[t].kind = "return"
              /\ as_tuple(result[t].val) = decomposed[t]

\* C5: whatever set_scale returns is a finite decimal whose as_tuple() scale
\* is new_scale.
C5_ResultScale ==
    \A t \in Threads :
        Done(t) /\ result[t].kind = "return" =>
            /\ result[t].val.special = "F"
            /\ pc[t] = "inspected" =>
                  decomposed[t].kind = "return" /\ decomposed[t].val[2] = new_scale[t]

\* C6: narrowing under HALF_UP, HALF_DOWN and HALF_EVEN returns the nearest
\* value of the new scale; a tie goes away from zero, toward zero, and to the
\* even last digit respectively.
C6_NearestNeighbour ==
    \A t \in Threads :
        Done(t) /\ new_scale[t] < Scale(self[t])
                /\ rounding[t] \in {HALF_UP, HALF_DOWN, HALF_EVEN} =>
            /\ Returned(t)
            /\ Scale(result[t].val) = new_scale[t]
            /\ NearestPerMode(self[t], result[t].val, rounding[t])

\* C7: narrowing under UP, DOWN, CEILING and FLOOR returns the adjacent value
\* of the new scale in the direction of the mode, and the exact value when
\* nothing nonzero is discarded.
C7_Directed ==
    \A t \in Threads :
        Done(t) /\ new_scale[t] < Scale(self[t])
                /\ rounding[t] \in {UP, DOWN, CEILING, FLOOR} =>
            /\ Returned(t)
            /\ Scale(result[t].val) = new_scale[t]
            /\ DirectedPerMode(self[t], result[t].val, rounding[t])

\* C8: set_scale to the receiver's own scale returns, under every mode, a
\* value with the receiver's unscaled value and scale, and rescaling any
\* returned value to its own scale again changes nothing.
C8_Idempotence ==
    \A t \in Threads :
        /\ Done(t) /\ new_scale[t] = Scale(self[t]) =>
              Returned(t) /\ as_tuple(result[t].val) = as_tuple(self[t])
        /\ Done(t) /\ Returned(t) =>
              set_scale(result[t].val, new_scale[t], rounding[t]) = result[t]

\* C9: in every interleaving, the outcome of a set_scale call is the outcome
\* of the same call alone on fresh contexts, and no step changes the
\* receiver of a call in progress.
C9_OutcomeIndependent ==
    /\ [](\A t \in Threads :
            Done(t) => result[t] = set_scale(self[t], new_scale[t], rounding[t]))
    /\ [][\A t \in Threads : pc[t] # "idle" /\ pc'[t] # "idle" => self'[t] = self[t]]_vars

\* a call under UNNECESSARY returned a value from a context in which an
\* earlier call recorded Inexact, while the other thread is inside quantize
\* on the same context
C9_Witness ==
    \E t, u \in Threads :
        /\ t # u
        /\ pc[t] = "returned" /\ rounding[t] = UNNECESSARY /\ Returned(t)
        /\ "Inexact" \in flags[context[t]]
        /\ pc[u] = "quantized" /\ context[u] = context[t]

\* C10: BYTE, SHORT, INT, LONG have values 1..4, size 2^(value-1) bytes and
\* the range [-2^(8*size-1), 2^(8*size-1)-1], whose ends are the first and
\* the last element of numbers().
IntTypeTable ==
    [BYTE |-> [value |-> 1, size |-> 1,
               min |-> PyInt(TRUE, <<1, 2, 8>>), max |-> PyInt(FALSE, <<1, 2, 7>>)],
     SHORT |-> [value |-> 2, size |-> 2,
                min |-> PyInt(TRUE, <<3, 2, 7, 6, 8>>), max |-> PyInt(FALSE, <<3, 2, 7, 6, 7>>)],
     INT |-> [value |-> 3, size |-> 4,
              min |-> PyInt(TRUE, <<2, 1, 4, 7, 4, 8, 3, 6, 4, 8>>),
              max |-> PyInt(FALSE, <<2, 1, 4, 7, 4, 8, 3, 6, 4, 7>>)],
     LONG |-> [value |-> 4, size |-> 8,
               min |-> PyInt(TRUE, <<9, 2, 2, 3, 3, 7, 2, 0, 3, 6, 8, 5, 4, 7, 7, 5, 8, 0, 8>>),
               max |-> PyInt(FALSE, <<9, 2, 2, 3, 3, 7, 2, 0, 3, 6, 8, 5, 4, 7, 7, 5, 8, 0, 7>>)]]

C10_IntTypeTable ==
    \A t \in Threads :
        pc[t] = "looked" =>
            LET e == IntTypeTable[table[t].kind]
                r == numbers(IntType[table[t].kind])
            IN  /\ IntTypeValue(table[t].kind) = e.value
                /\ table[t].size = e.size
                /\ table[t].min_max = <<e.min, e.max>>
                /\ table[t].min_max[1] = r.start
                /\ IntAdd(table[t].min_max[2], FromInt(1)) = r.stop

\* the lookup of LONG, the widest range, has completed
C10_Witness ==
    \E t \in Threads : pc[t] = "looked" /\ table[t].kind = "LONG" /\ table[t].size = 8

(***************************************************************************)
(* Within the 28 digits and the exponent range of the contexts the          *)
(* rounding is the one C1, C2, C6, C7 and C8 describe: their failures all   *)
(* come from the limits of the contexts.                                    *)
(***************************************************************************)
WithinContext(t) == Done(t) /\ "InvalidOperation" \notin quantized[t].status

RoundingWithinContext ==
    \A t \in Threads :
        WithinContext(t) =>
            /\ rounding[t] # UNNECESSARY => Returned(t) /\ Scale(result[t].val) = new_scale[t]
            /\ rounding[t] = UNNECESSARY =>
                  IF Representable(self[t], new_scale[t]) THEN Returned(t)
                  ELSE result[t].kind = "raise" /\ result[t].exc = "Inexact"
            /\ Returned(t) /\ new_scale[t] >= Scale(self[t]) =>
                  as_tuple(result[t].val).val =
                      <<Widened(self[t], new_scale[t] - Scale(self[t])), new_scale[t]>>
            /\ Returned(t) /\ new_scale[t] < Scale(self[t]) =>
                  CASE rounding[t] \in {HALF_UP, HALF_DOWN, HALF_EVEN} ->
                          NearestPerMode(self[t], result[t].val, rounding[t])
                    [] rounding[t] \in {UP, DOWN, CEILING, FLOOR} ->
                          DirectedPerMode(self[t], result[t].val, rounding[t])
                    [] OTHER -> Units(self[t], result[t].val).R = Units(self[t], result[t].val).U

====
